---- MODULE Spec2Model ----
(***************************************************************************)
(* Model of symbols_mcp/server.py: the skills directory, the file helpers   *)
(* (_read_skill, _load_agent_instructions), the tools get_project_rules and *)
(* search_symbols_docs, and the file-backed resources.                      *)
(*                                                                          *)
(* Text is a sequence of one-character strings, so that lower-casing,       *)
(* splitting on whitespace, splitting on newlines and substring search are  *)
(* computed character by character as the Python code computes them.        *)
(***************************************************************************)
EXTENDS Integers, Sequences, FiniteSets, TLC

VARIABLES
    dir_exists,   \* whether SKILLS_PATH exists as a directory
    dir,          \* file name -> entry of the skills directory
    pc,           \* "idle" | "scan" | "return" | "done"
    op,           \* "none" | "rules" | "skill" | "search"
    query,        \* search_symbols_docs: argument query
    max_results,  \* search_symbols_docs: argument max_results
    keywords,     \* search_symbols_docs: local keywords
    order,        \* the enumeration SKILLS_PATH.glob("*.md") yields in this call
    idx,          \* position in order of the next file of the for loop
    results,      \* search_symbols_docs: local results
    reads,        \* history: the files read_text was called on, in order
    response,     \* what the finished operation returned (or that it raised)
    first         \* history: response of the earlier call of a pair of equal calls

vars == <<dir_exists, dir, pc, op, query, max_results, keywords, order, idx,
          results, reads, response, first>>

----------------------------------------------------------------------------
(* Bounds of the model *)

\* largest number of entries present in the skills directory
MaxFiles == 2
\* largest max_results a caller passes
MaxK == 2
\* number of lines of the long documents
NumLines == 25
\* largest length of the queries that tokenization is checked on exhaustively
MaxQueryLen == 4

(* Program constants *)

\* len(w) > 2
MinKeywordLen == 2
\* start = max(0, i - 2)
ContextBefore == 2
\* end = min(len(lines), i + 20)
ContextAfter == 20

----------------------------------------------------------------------------
(* Strings *)

NL == "\n"
SP == " "

Max(a, b) == IF a >= b THEN a ELSE b
Min(a, b) == IF a <= b THEN a ELSE b
Range(s) == { s[i] : i \in 1..Len(s) }

\* str.lower() on one character of the model's alphabet
LowerChar(c) ==
    CASE c = "A" -> "a"
      [] c = "B" -> "b"
      [] c = "Z" -> "z"
      [] OTHER -> c

\* str.lower()
Lower(s) == [i \in 1..Len(s) |-> LowerChar(s[i])]

\* the characters the regular expression \s matches
IsSpace(c) == c \in {SP, NL, "\t"}

\* re.split(r"\s+", s): cut s at every maximal run of whitespace; a run at
\* the start or at the end leaves an empty piece there
RECURSIVE SplitWs(_, _, _)
SplitWs(s, i, cur) ==
    IF i > Len(s) THEN <<cur>>
    ELSE IF IsSpace(s[i])
         THEN IF i > 1 /\ IsSpace(s[i-1])
              THEN SplitWs(s, i + 1, cur)
              ELSE <<cur>> \o SplitWs(s, i + 1, <<>>)
         ELSE SplitWs(s, i + 1, Append(cur, s[i]))

\* content.split("\n")
RECURSIVE SplitNL(_, _, _)
SplitNL(s, i, cur) ==
    IF i > Len(s) THEN <<cur>>
    ELSE IF s[i] = NL
         THEN <<cur>> \o SplitNL(s, i + 1, <<>>)
         ELSE SplitNL(s, i + 1, Append(cur, s[i]))

\* "\n".join(ls)
RECURSIVE JoinNL(_)
JoinNL(ls) ==
    IF Len(ls) = 0 THEN <<>>
    ELSE IF Len(ls) = 1 THEN ls[1]
    ELSE ls[1] \o <<NL>> \o JoinNL(Tail(ls))

\* kw in text
Contains(kw, text) ==
    \E i \in 0..(Len(text) - Len(kw)) : SubSeq(text, i + 1, i + Len(kw)) = kw

\* any(kw in text for kw in kws)
AnyIn(kws, text) == \E j \in 1..Len(kws) : Contains(kws[j], text)

\* a mutation of KeepWord: keeps words of length 2 as well
KeepWordGe(w) == Len(w) >= MinKeywordLen

\* the filter of the list comprehension: len(w) > 2
KeepWord(w) == Len(w) > MinKeywordLen

\* [w for w in ws if len(w) > 2]
RECURSIVE FilterWords(_)
FilterWords(ws) ==
    IF Len(ws) = 0 THEN <<>>
    ELSE IF KeepWord(ws[1]) THEN <<ws[1]>> \o FilterWords(Tail(ws))
    ELSE FilterWords(Tail(ws))

\* keywords = [...]; if not keywords: keywords = [query.lower()]
Tokenize(q) ==
    LET kept == FilterWords(SplitWs(Lower(q), 1, <<>>))
    IN  IF Len(kept) = 0 THEN <<Lower(q)>> ELSE kept

----------------------------------------------------------------------------
(* The skills directory *)

AGENT == "AGENT_INSTRUCTIONS.md"
CLAUDE == "CLAUDE.md"
QUICKSTART == "QUICKSTART.md"
DESIGN == "DESIGN_DIRECTION.md"

\* the file names of the model; each matches the pattern *.md
Names == {AGENT, CLAUDE, QUICKSTART, DESIGN}

\* the files the resources read through _read_skill
ResourceFiles == {CLAUDE, QUICKSTART, DESIGN}

Absent == [kind |-> "absent", text |-> <<>>]
\* an entry that exists and that read_text(encoding="utf-8") cannot read:
\* a directory named *.md, or a file that is not UTF-8
Unreadable == [kind |-> "unreadable", text |-> <<>>]
File(t) == [kind |-> "text", text |-> t]

\* a document of NumLines lines "b" whose line m (counted from 0) is "aBa"
LongDoc(m) ==
    JoinNL([j \in 1..NumLines |-> IF j = m + 1 THEN <<"a", "B", "a">> ELSE <<"b">>])

Pool(n) ==
    CASE n = AGENT -> {Unreadable, File(<<"#", SP, "A", NL, "a", "B", "a">>)}
      [] n = CLAUDE -> {File(<<"a", SP, "a", NL, "b", "b", "b">>)}
      [] n = QUICKSTART -> {Unreadable,
                            File(<<>>),
                            File(<<"a", NL, "a">>),
                            File(<<"A", "B", "A", SP, "b">>),
                            File(LongDoc(3)),
                            File(LongDoc(NumLines - 1))}
      [] n = DESIGN -> {File(<<"b", "b", "b">>),
                        File(<<"x", NL, NL, "a", NL, "a", "b", "a">>)}

Present(d) == { n \in Names : d[n].kind # "absent" }

DirStates ==
    { d \in [Names -> UNION { Pool(n) : n \in Names } \cup {Absent}] :
        /\ \A n \in Names : d[n] \in Pool(n) \cup {Absent}
        /\ Cardinality(Present(d)) <= MaxFiles }

\* the queries callers pass
Queries ==
    { <<>>,
      <<"B">>,
      <<"a", SP, "a">>,
      <<"a", NL, "a">>,
      <<"a", "B", "a">>,
      <<"b", "b", "b">>,
      <<SP, "a", "B", "a", SP>>,
      <<"a", "B", "a", SP, NL, "b", "b", "b">>,
      <<"a", "b", SP, "a", "B", "a">>,
      <<"z", "z", "z">>,
      <<"Z", "z">> }

\* the max_results callers pass: the code neither clamps nor validates it
Limits == (-1)..MaxK

----------------------------------------------------------------------------
(* Return values *)

NoCall == [kind |-> "nocall", text |-> <<>>, entries |-> <<>>]
\* the operation ended in an exception instead of returning
Raised == [kind |-> "raised", text |-> <<>>, entries |-> <<>>]
Text(t) == [kind |-> "text", text |-> t, entries |-> <<>>]
\* json.dumps(es, indent=2)
Json(es) == [kind |-> "json", text |-> <<>>, entries |-> es]

\* SKILLS_PATH / filename
PathOf(filename) == <<"SKILLS_PATH", "/", filename>>

\* f"Skill file '{filename}' not found at {path}"
NotFoundMsg(filename) ==
    <<"Skill file '", filename, "' not found at ">> \o PathOf(filename)

\* a mutation of NoResultsMsg: embeds the lower-cased query
NoResultsMsgLower(q) ==
    <<"No results found for '">> \o Lower(q) \o <<"'. Try a different search term.">>

\* f"No results found for '{query}'. Try a different search term."
NoResultsMsg(q) ==
    <<"No results found for '">> \o q \o <<"'. Try a different search term.">>

----------------------------------------------------------------------------
(* File helpers *)

\* path.exists()
Exists(filename) == dir_exists /\ dir[filename].kind # "absent"

\* path.read_text(encoding="utf-8") of an entry that exists
ReadText(filename) ==
    IF dir[filename].kind = "text" THEN Text(dir[filename].text) ELSE Raised

\* _read_skill(filename)
ReadSkill(filename) ==
    IF Exists(filename) THEN ReadText(filename) ELSE Text(NotFoundMsg(filename))

\* a mutation of LoadAgentInstructions: prefers CLAUDE.md
LoadAgentInstructionsSwapped ==
    IF Exists(CLAUDE) THEN ReadText(CLAUDE) ELSE ReadSkill(AGENT)

\* _load_agent_instructions()
LoadAgentInstructions ==
    IF Exists(AGENT) THEN ReadText(AGENT) ELSE ReadSkill(CLAUDE)

\* SKILLS_PATH.glob("*.md"): nothing when the directory does not exist
Glob == IF dir_exists THEN Present(dir) ELSE {}

\* the orders in which the entries S can be enumerated: os.scandir yields
\* them in arbitrary order
Enumerations(S) ==
    { s \in [1..Cardinality(S) -> S] : \A i, j \in 1..Cardinality(S) : s[i] = s[j] => i = j }

----------------------------------------------------------------------------
(* search_symbols_docs: the body of the for loop *)

\* any(kw in content_lower for kw in keywords)
GatePasses(kws, content) == AnyIn(kws, Lower(content))

\* a mutation of LineMatches: compares the line without lower-casing it
LineMatchesCased(kws, line) == AnyIn(kws, line)

\* any(kw in line_lower for kw in keywords)
LineMatches(kws, line) == AnyIn(kws, Lower(line))

\* for i, line in enumerate(lines): if ...: ... break
\* the index (from 0) of the line the loop breaks at, or -1 when it never does
RECURSIVE FirstMatchLine(_, _, _)
FirstMatchLine(lines, kws, i) ==
    IF i >= Len(lines) THEN -1
    ELSE IF LineMatches(kws, lines[i + 1]) THEN i
    ELSE FirstMatchLine(lines, kws, i + 1)

\* a mutation of Snippet: the window starts one line late
SnippetLate(lines, i) ==
    LET start == Max(0, i - ContextBefore + 1)
        end == Min(Len(lines), i + ContextAfter)
    IN  JoinNL(SubSeq(lines, start + 1, end))

\* start = max(0, i - 2); end = min(len(lines), i + 20)
\* "\n".join(lines[start:end])
Snippet(lines, i) ==
    LET start == Max(0, i - ContextBefore)
        end == Min(Len(lines), i + ContextAfter)
    IN  JoinNL(SubSeq(lines, start + 1, end))

\* what one gate-passing document appends to results
MatchOf(fname, content, kws) ==
    LET lines == SplitNL(content, 1, <<>>)
        i == FirstMatchLine(lines, kws, 0)
    IN  IF i < 0 THEN <<>>
        ELSE <<[file |-> fname, snippet |-> Snippet(lines, i)]>>

\* a mutation of ShouldBreak: off by one
ShouldBreakGt(rs, k) == Len(rs) > k

\* a mutation of ShouldBreak: no early termination
ShouldBreakNever(rs, k) == FALSE

\* if len(results) >= max_results: break
ShouldBreak(rs, k) == Len(rs) >= k

\* results[:max_results], with Python's meaning of a negative bound
Slice(rs, k) ==
    IF k >= 0 THEN SubSeq(rs, 1, Min(k, Len(rs)))
    ELSE SubSeq(rs, 1, Max(0, Len(rs) + k))

\* a mutation of Respond: serialises the list without testing it
RespondAlways(rs, k, q) == Json(Slice(rs, k))

\* if results: return json.dumps(results[:max_results], indent=2)
\* return f"No results found for '{query}'. ..."
Respond(rs, k, q) ==
    IF Len(rs) > 0 THEN Json(Slice(rs, k)) ELSE Text(NoResultsMsg(q))

----------------------------------------------------------------------------
(* Operations *)

Init ==
    /\ dir \in DirStates
    /\ dir_exists \in BOOLEAN
    /\ (~dir_exists => Present(dir) = {})
    /\ pc = "idle"
    /\ op = "none"
    /\ query = <<>>
    /\ max_results = 0
    /\ keywords = <<>>
    /\ order = <<>>
    /\ idx = 1
    /\ results = <<>>
    /\ reads = <<>>
    /\ response = NoCall
    /\ first = NoCall

\* get_project_rules()
GetProjectRules ==
    /\ pc = "idle"
    /\ op' = "rules"
    /\ response' = LoadAgentInstructions
    /\ pc' = "done"
    /\ UNCHANGED <<dir_exists, dir, query, max_results, keywords, order, idx,
                   results, reads, first>>

\* the file-backed resources: get_domql_v3_reference, get_design_direction,
\* get_quickstart, ...
ReadResource ==
    /\ pc = "idle"
    /\ \E f \in ResourceFiles : response' = ReadSkill(f)
    /\ op' = "skill"
    /\ pc' = "done"
    /\ UNCHANGED <<dir_exists, dir, query, max_results, keywords, order, idx,
                   results, reads, first>>

\* the state of a search call on entry to the for loop
EnterLoop(q, k) ==
    /\ op' = "search"
    /\ query' = q
    /\ max_results' = k
    /\ keywords' = Tokenize(q)
    /\ order' \in Enumerations(Glob)
    /\ idx' = 1
    /\ results' = <<>>
    /\ reads' = <<>>
    /\ response' = NoCall
    /\ pc' = IF Glob = {} THEN "return" ELSE "scan"
    /\ UNCHANGED <<dir_exists, dir>>

\* search_symbols_docs(query, max_results): up to the for loop
SearchStart ==
    /\ pc = "idle"
    /\ \E q \in Queries, k \in Limits : EnterLoop(q, k)
    /\ first' = NoCall

\* one iteration of the for loop
SearchScan ==
    /\ pc = "scan"
    /\ LET fname == order[idx]
           got == ReadText(fname)
           more == IF GatePasses(keywords, got.text)
                   THEN MatchOf(fname, got.text, keywords) ELSE <<>>
           stop == GatePasses(keywords, got.text)
                   /\ ShouldBreak(results \o more, max_results)
       IN  /\ reads' = Append(reads, fname)
           /\ IF got = Raised
              THEN /\ response' = Raised
                   /\ pc' = "done"
                   /\ UNCHANGED <<results, idx>>
              ELSE /\ results' = results \o more
                   /\ idx' = idx + 1
                   /\ pc' = IF stop \/ idx = Len(order) THEN "return" ELSE "scan"
                   /\ UNCHANGED response
    /\ UNCHANGED <<dir_exists, dir, op, query, max_results, keywords, order, first>>

\* the return statements of search_symbols_docs
SearchReturn ==
    /\ pc = "return"
    /\ response' = Respond(results, max_results, query)
    /\ pc' = "done"
    /\ UNCHANGED <<dir_exists, dir, op, query, max_results, keywords, order, idx,
                   results, reads, first>>

\* a second search_symbols_docs call with the query and the max_results of
\* the call that just ended
SearchAgain ==
    /\ pc = "done"
    /\ op = "search"
    /\ first = NoCall
    /\ first' = response
    /\ EnterLoop(query, max_results)

\* the server is ready for the next request
NextRequest ==
    /\ pc = "done"
    /\ pc' = "idle"
    /\ op' = "none"
    /\ query' = <<>>
    /\ max_results' = 0
    /\ keywords' = <<>>
    /\ order' = <<>>
    /\ idx' = 1
    /\ results' = <<>>
    /\ reads' = <<>>
    /\ response' = NoCall
    /\ first' = NoCall
    /\ UNCHANGED <<dir_exists, dir>>

Next ==
    \/ GetProjectRules
    \/ ReadResource
    \/ SearchStart
    \/ SearchScan
    \/ SearchReturn
    \/ SearchAgain
    \/ NextRequest

Spec == Init /\ [][Next]_vars

----------------------------------------------------------------------------
(* Vocabulary of the properties, stated on the directory and the arguments *)

\* every entry the glob yields is a document: a file readable as UTF-8 text
CorpusReadable == \A n \in Glob : dir[n].kind = "text"

IsDoc(n) == dir[n].kind = "text"

\* the document's lower-cased full text contains some keyword of the call
PassesGate(n) ==
    /\ IsDoc(n)
    /\ \E kw \in Range(keywords) : Contains(kw, Lower(dir[n].text))

\* the same, for a keyword that holds no newline
PassesGateOnOneLine(n) ==
    /\ IsDoc(n)
    /\ \E kw \in Range(keywords) :
          NL \notin Range(kw) /\ Contains(kw, Lower(dir[n].text))

\* the number of the line (from 0) that starts i characters into text t
LineNumber(t, i) == Cardinality({ q \in 1..i : t[q] = NL })

\* the indices (from 0) of the lines of text t that contain a keyword: the
\* lines in which an occurrence of a keyword without a newline starts
MatchLines(t) ==
    LET lt == Lower(t)
    IN  { LineNumber(t, i) :
            i \in { x \in 0..Len(t) :
                      \E kw \in Range(keywords) :
                          /\ NL \notin Range(kw)
                          /\ x + Len(kw) <= Len(t)
                          /\ SubSeq(lt, x + 1, x + Len(kw)) = kw } }

\* the document produces a result entry when it is inspected
Qualifies(n) == IsDoc(n) /\ MatchLines(dir[n].text) # {}

\* the positions of the enumeration that hold a qualifying document
QualPos == { p \in 1..Len(order) : Qualifies(order[p]) }

\* the k-th smallest element of the set of positions qp (when it has k)
Kth(qp, k) == CHOOSE p \in qp : Cardinality({ q \in qp : q <= p }) = k

\* the entries of rs that name file n
EntriesFor(rs, n) == { j \in 1..Len(rs) : rs[j].file = n }

Files(rs) == [j \in 1..Len(rs) |-> rs[j].file]

SearchRunning == op = "search" /\ pc # "idle"
SearchDone == op = "search" /\ pc = "done"

----------------------------------------------------------------------------
(* C1: for every query, every limit k >= 1 and every corpus, the list that   *)
(* search_symbols_docs returns has at most k entries; the list of matches    *)
(* the loop collects never exceeds k either, so the final slice cuts nothing. *)
C1_AtMostK ==
    (SearchRunning /\ max_results >= 1) =>
        /\ Len(results) <= max_results
        /\ (pc = "done" /\ response.kind = "json") =>
              Len(response.entries) <= max_results

\* a call returned exactly k entries although more than k documents qualify
C1_Witness ==
    /\ SearchDone
    /\ max_results >= 1
    /\ response.kind = "json"
    /\ Len(response.entries) = max_results
    /\ Cardinality(QualPos) > max_results

(* C2: early termination. In a call with limit k >= 1 over a corpus in which *)
(* at least k documents qualify, no document after the k-th qualifying one   *)
(* (in the traversal order of the call) is ever read; when the call is over  *)
(* the documents read are exactly those up to and including it, and the      *)
(* result holds the entries of the first k qualifying documents.             *)
C2_EarlyTermination ==
    (SearchRunning /\ max_results >= 1) =>
        LET qp == QualPos
            last == Kth(qp, max_results)
        IN  Cardinality(qp) >= max_results =>
              /\ Len(reads) <= last
              /\ reads = SubSeq(order, 1, Len(reads))
              /\ (pc = "done" /\ \A p \in 1..last : IsDoc(order[p])) =>
                    /\ reads = SubSeq(order, 1, last)
                    /\ response.kind = "json"
                    /\ Files(response.entries) =
                          [j \in 1..max_results |-> order[Kth(qp, j)]]

\* limit 1, two qualifying documents A before B: one entry, for A; B not read
C2_Witness ==
    /\ SearchDone
    /\ max_results = 1
    /\ Len(order) = 2
    /\ QualPos = {1, 2}
    /\ reads = <<order[1]>>
    /\ Files(response.entries) = <<order[1]>>

(* C3: get_project_rules returns the content of AGENT_INSTRUCTIONS.md when   *)
(* that file exists, whether or not CLAUDE.md exists; the content of         *)
(* CLAUDE.md when AGENT_INSTRUCTIONS.md is absent and CLAUDE.md exists; and, *)
(* when both are absent, the not-found text that names CLAUDE.md and its     *)
(* path and never the path of AGENT_INSTRUCTIONS.md.                         *)
C3_RulesFallback ==
    (pc = "done" /\ op = "rules") =>
        /\ (dir_exists /\ IsDoc(AGENT)) => response = Text(dir[AGENT].text)
        /\ (dir_exists /\ dir[AGENT].kind = "absent" /\ IsDoc(CLAUDE)) =>
              response = Text(dir[CLAUDE].text)
        /\ (~dir_exists \/ (dir[AGENT].kind = "absent" /\ dir[CLAUDE].kind = "absent")) =>
              /\ response.kind = "text"
              /\ response.text =
                    <<"Skill file '", CLAUDE, "' not found at ", "SKILLS_PATH", "/", CLAUDE>>
              /\ AGENT \notin Range(response.text)

\* the fallback was used: AGENT_INSTRUCTIONS.md absent, CLAUDE.md returned
C3_Witness ==
    /\ pc = "done"
    /\ op = "rules"
    /\ dir[AGENT].kind = "absent"
    /\ IsDoc(CLAUDE)
    /\ response = Text(dir[CLAUDE].text)

(* C4: when no document of the corpus contains a keyword of the query in its *)
(* lower-cased full text (the corpus may have no documents, the directory    *)
(* may not exist), search_symbols_docs returns the no-results message for    *)
(* every max_results, and the message embeds the query exactly as passed.    *)
C4_NoMatchMessage ==
    (SearchDone /\ CorpusReadable /\ ~(\E n \in Glob : PassesGate(n))) =>
        response =
            Text(<<"No results found for '">> \o query
                 \o <<"'. Try a different search term.">>)

\* a query with an upper-case letter found in none of the documents present
C4_Witness ==
    /\ SearchDone
    /\ CorpusReadable
    /\ Glob # {}
    /\ ~(\E n \in Glob : PassesGate(n))
    /\ query # Lower(query)
    /\ response.kind = "text"

\* the maximal whitespace-free pieces of text t that are longer than 2
LongWords(t) ==
    { SubSeq(t, x[1], x[2]) :
        x \in { y \in (1..Len(t)) \X (1..Len(t)) :
                  /\ y[2] - y[1] + 1 > 2
                  /\ \A m \in y[1]..y[2] : ~IsSpace(t[m])
                  /\ (y[1] = 1 \/ IsSpace(t[y[1] - 1]))
                  /\ (y[2] = Len(t) \/ IsSpace(t[y[2] + 1])) } }

\* every text of at most MaxQueryLen characters over a letter, an upper-case
\* letter, a space and a newline
ShortTexts ==
    UNION { [1..n -> {"a", "B", SP, NL}] : n \in 0..MaxQueryLen }

\* kws holds exactly the keywords that query q has
KeywordsOf(q, kws) ==
    /\ Len(kws) >= 1
    /\ Range(kws) =
          IF LongWords(Lower(q)) # {} THEN LongWords(Lower(q)) ELSE {Lower(q)}

(* C5: the keywords of a call are never empty: they are the lower-cased      *)
(* whitespace-separated tokens of the query longer than 2 characters when    *)
(* there is one, and otherwise the single keyword that is the whole          *)
(* lower-cased query. For the empty query the single keyword is the empty    *)
(* string, every document passes the gate, and a call with limit k >= 1      *)
(* returns the entries of the first min(k, n) documents of the traversal.    *)
C5_Tokenize ==
    /\ pc = "idle" => \A q \in ShortTexts : KeywordsOf(q, Tokenize(q))
    /\ SearchRunning =>
        /\ KeywordsOf(query, keywords)
        /\ (query = <<>>) =>
              /\ keywords = << <<>> >>
              /\ \A n \in Glob : IsDoc(n) => PassesGate(n)
              /\ LET m == Min(max_results, Len(order))
                 IN  (pc = "done" /\ max_results >= 1 /\ Len(order) >= 1
                        /\ \A p \in 1..m : IsDoc(order[p])) =>
                        /\ response.kind = "json"
                        /\ Files(response.entries) = SubSeq(order, 1, m)

\* the empty query with limit 1 over two documents: the first one is returned
C5_Witness ==
    /\ SearchDone
    /\ query = <<>>
    /\ max_results = 1
    /\ Len(order) = 2
    /\ CorpusReadable
    /\ Files(response.entries) = <<order[1]>>

(* C6: for every result entry, the match line i is the first line of the     *)
(* document (split on newlines) whose lower-cased text contains a keyword,   *)
(* and the snippet is exactly the lines [max(0, i-2), min(lineCount, i+20))  *)
(* joined with newlines: it holds the match line, has at most 22 lines and   *)
(* stays inside the document.                                                *)
C6_SnippetWindow ==
    SearchRunning =>
        \A j \in 1..Len(results) :
            LET e == results[j]
                lines == SplitNL(dir[e.file].text, 1, <<>>)
                ms == MatchLines(dir[e.file].text)
                i == CHOOSE x \in ms : \A y \in ms : x <= y
                from == IF i - 2 > 0 THEN i - 2 ELSE 0
                to == IF i + 20 < Len(lines) THEN i + 20 ELSE Len(lines)
                shown == SplitNL(e.snippet, 1, <<>>)
            IN  /\ ms # {}
                /\ shown = [x \in 1..(to - from) |-> lines[from + x]]
                /\ Len(shown) <= 22
                /\ from <= i /\ i < to
                /\ shown[i - from + 1] = lines[i + 1]
                /\ (pc = "done" /\ response.kind = "json") =>
                      \A x \in 1..Len(response.entries) : response.entries[x] = results[x]

\* a full window inside a longer document: 22 lines, neither end of the
\* document shown
C6_Witness ==
    /\ SearchDone
    /\ response.kind = "json"
    /\ \E j \in 1..Len(response.entries) :
          LET e == response.entries[j]
              lines == SplitNL(dir[e.file].text, 1, <<>>)
              shown == SplitNL(e.snippet, 1, <<>>)
              i == CHOOSE x \in MatchLines(dir[e.file].text) :
                       \A y \in MatchLines(dir[e.file].text) : x <= y
          IN  /\ Len(shown) = 22
              /\ Len(lines) > i + 20
              /\ i > 2

(* C7: no operation ends in a raised exception: whatever the query, the     *)
(* max_results and the state of the skills directory, get_project_rules,     *)
(* search_symbols_docs and every file-backed resource return a text value.   *)
C7_NeverRaises == pc = "done" => response.kind \in {"text", "json"}

(* C8: two search_symbols_docs calls with the same query, the same           *)
(* max_results and the same corpus contents return the same response. It is  *)
(* stated here for the plainest calls only: every entry of the directory a   *)
(* readable document and max_results >= 1.                                   *)
C8_Reproducible ==
    (SearchDone /\ first # NoCall /\ CorpusReadable /\ max_results >= 1) =>
        response = first

(* C8, the part of it that the code does guarantee: no operation changes the *)
(* skills directory.                                                         *)
C8_CorpusUnchanged == [][dir' = dir /\ dir_exists' = dir_exists]_vars

(* C9 as claimed: for every query and every integer max_results, 0 and       *)
(* negative values included, a response of search_symbols_docs is either the *)
(* no-results message or a JSON list with at least one entry; an empty JSON  *)
(* list is never returned.                                                   *)
C9_TwoShapes ==
    (SearchDone /\ response # Raised) =>
        \/ response = Text(<<"No results found for '">> \o query
                           \o <<"'. Try a different search term.">>)
        \/ response.kind = "json" /\ Len(response.entries) >= 1

(* C9 as amended: for max_results >= 1 a response of search_symbols_docs is  *)
(* either the no-results message or a JSON list with at least one entry, and *)
(* it is the message exactly when no match was collected; for                *)
(* max_results <= 0 it is either the no-results message or the empty JSON    *)
(* list.                                                                     *)
C9_TwoShapesFromOne ==
    (SearchDone /\ response # Raised) =>
        LET msg == Text(<<"No results found for '">> \o query
                        \o <<"'. Try a different search term.">>)
        IN  /\ (max_results >= 1) =>
                  /\ response = msg \/ (response.kind = "json" /\ Len(response.entries) >= 1)
                  /\ (response = msg) <=> (Len(results) = 0)
            /\ (max_results <= 0) =>
                  response = msg \/ response = Json(<<>>)

\* max_results = 0 with a matching document: the empty JSON list is returned
C9_Witness ==
    /\ SearchDone
    /\ max_results = 0
    /\ \E n \in Glob : Qualifies(n)
    /\ Len(results) = 1
    /\ response = Json(<<>>)

(* C10 as claimed: every document that passes the document gate has a line  *)
(* that contains a keyword, so each gate-passing document that is inspected  *)
(* contributes exactly one result entry, whatever the query.                 *)
C10_GateGivesEntry ==
    SearchRunning =>
        \A p \in 1..Len(reads) :
            PassesGate(reads[p]) => Cardinality(EntriesFor(results, reads[p])) = 1

(* C10 as amended: every document that passes the document gate on a        *)
(* keyword that holds no newline has a line that contains a keyword; each    *)
(* such document that is inspected contributes exactly one result entry, a   *)
(* document that passes the gate only on a keyword with a newline in it      *)
(* contributes none, documents that do not pass contribute none, and no file *)
(* name appears in two entries. For k >= 1, if a document passes the gate on *)
(* a keyword without a newline the response is a non-empty list and not the  *)
(* no-results message. Keywords with a newline arise only as the fallback    *)
(* keyword of a query that has no token longer than 2 characters.            *)
C10_GateOnOneLineGivesEntry ==
    SearchRunning =>
        /\ \A p \in 1..Len(reads) :
              Cardinality(EntriesFor(results, reads[p])) =
                  IF PassesGateOnOneLine(reads[p]) THEN 1 ELSE 0
        /\ \A i, j \in 1..Len(results) : results[i].file = results[j].file => i = j
        /\ (\E kw \in Range(keywords) : NL \in Range(kw)) =>
              keywords = <<Lower(query)>>
        /\ (pc = "done" /\ max_results >= 1 /\ CorpusReadable
              /\ \E n \in Glob : PassesGateOnOneLine(n)) =>
              /\ response.kind = "json"
              /\ Len(response.entries) >= 1

\* a document passed the gate on the fallback keyword "a\na" and gave no entry
C10_Witness ==
    /\ SearchDone
    /\ \E p \in 1..Len(reads) :
          /\ PassesGate(reads[p])
          /\ ~PassesGateOnOneLine(reads[p])
          /\ EntriesFor(results, reads[p]) = {}

====
